---------------------------- MODULE Spec2Model ----------------------------
(***************************************************************************)
(* Model of populate_db.py: a linear batch script that copies six tables   *)
(* from a SQLite file into PostgreSQL.  The script recreates the six       *)
(* destination tables, truncates them, loads five tables with a batched    *)
(* parameterised INSERT and the sixth through a CSV file and COPY, closes  *)
(* both connections and prints the elapsed time.                           *)
(*                                                                         *)
(* The two database engines are modelled by what the statements the script *)
(* issues do: DROP TABLE ... CASCADE, CREATE TABLE with PRIMARY KEY,       *)
(* NOT NULL and REFERENCES, TRUNCATE ... CASCADE, INSERT, COPY ... CSV     *)
(* HEADER, COMMIT, and the rollback of an open transaction when the        *)
(* process dies with the connection open.                                  *)
(***************************************************************************)
EXTENDS Integers, Sequences, FiniteSets, TLC

(***************************************************************************)
(* Bounds of the model.                                                    *)
(***************************************************************************)
\* most rows in the one source table whose content is varied
MaxRows == 2
\* most rows initially held by the unrelated destination table
MaxOther == 1
\* number of successive runs of the script
MaxRuns == 2

(***************************************************************************)
(* Cell values.  One record shape for all of them so that any two cells    *)
(* can be compared: a missing value (NULL, None), a string or a number.    *)
(***************************************************************************)
Null == [k |-> "null", s |-> "", n |-> 0]
Str(x) == [k |-> "str", s |-> x, n |-> 0]
Num(x) == [k |-> "num", s |-> "", n |-> x]
\* pandas' NaN: what a missing cell of a numeric column is read as
NaN == [k |-> "nan", s |-> "", n |-> 0]

(***************************************************************************)
(* Configuration of the script.                                            *)
(***************************************************************************)
SQLITE_TABLES ==
    <<"Region", "Country", "Customer", "ProductCategory", "Product", "OrderDetail">>

PG_TABLES ==
    <<"region", "country", "customer", "productcategory", "product", "orderdetail">>

Range(f) == {f[x] : x \in DOMAIN f}

PgNames == Range(PG_TABLES)

\* The DROP statements of SCHEMA_SQL, in the order they are written.
DropOrder ==
    <<"orderdetail", "customer", "product", "productcategory", "country", "region">>

\* The CREATE statements of SCHEMA_SQL, in the order they are written.
CreateOrder ==
    <<"region", "country", "customer", "productcategory", "product", "orderdetail">>

Col(name, type, ref) == [name |-> name, type |-> type, ref |-> ref]

\* The columns each CREATE TABLE declares.  The first column of every table
\* is its PRIMARY KEY and every column is NOT NULL; ref is the table a
\* REFERENCES clause names (its primary key), or "none".
SchemaColumns ==
    [region |-> << Col("regionid", "INTEGER", "none"),
                   Col("region", "TEXT", "none") >>,
     country |-> << Col("countryid", "INTEGER", "none"),
                    Col("country", "TEXT", "none"),
                    Col("regionid", "INTEGER", "region") >>,
     customer |-> << Col("customerid", "INTEGER", "none"),
                     Col("firstname", "TEXT", "none"),
                     Col("lastname", "TEXT", "none"),
                     Col("address", "TEXT", "none"),
                     Col("city", "TEXT", "none"),
                     Col("countryid", "INTEGER", "country") >>,
     productcategory |-> << Col("productcategoryid", "INTEGER", "none"),
                            Col("productcategory", "TEXT", "none"),
                            Col("productcategorydescription", "TEXT", "none") >>,
     product |-> << Col("productid", "INTEGER", "none"),
                    Col("productname", "TEXT", "none"),
                    Col("productunitprice", "REAL", "none"),
                    Col("productcategoryid", "INTEGER", "productcategory") >>,
     orderdetail |-> << Col("orderid", "INTEGER", "none"),
                        Col("customerid", "INTEGER", "customer"),
                        Col("productid", "INTEGER", "product"),
                        Col("orderdate", "TEXT", "none"),
                        Col("quantityordered", "INTEGER", "none") >>]

\* The tables a table's REFERENCES clauses name.
References(t) ==
    {SchemaColumns[t][j].ref : j \in DOMAIN SchemaColumns[t]} \ {"none"}

\* The column names of the source tables, as the SQLite file spells them.
SourceColumns ==
    [Region |-> <<"RegionID", "Region">>,
     Country |-> <<"CountryID", "Country", "RegionID">>,
     Customer |-> <<"CustomerID", "FirstName", "LastName", "Address", "City",
                    "CountryID">>,
     ProductCategory |-> <<"ProductCategoryID", "ProductCategory",
                           "ProductCategoryDescription">>,
     Product |-> <<"ProductID", "ProductName", "ProductUnitPrice",
                   "ProductCategoryID">>,
     OrderDetail |-> <<"OrderID", "CustomerID", "ProductID", "OrderDate",
                       "QuantityOrdered">>]

\* c.strip().lower() on the column names that occur.
LowerPairs ==
    { <<"RegionID", "regionid">>, <<"Region", "region">>,
      <<"CountryID", "countryid">>, <<"Country", "country">>,
      <<"CustomerID", "customerid">>, <<"FirstName", "firstname">>,
      <<"LastName", "lastname">>, <<"Address", "address">>, <<"City", "city">>,
      <<"ProductCategoryID", "productcategoryid">>,
      <<"ProductCategory", "productcategory">>,
      <<"ProductCategoryDescription", "productcategorydescription">>,
      <<"ProductID", "productid">>, <<"ProductName", "productname">>,
      <<"ProductUnitPrice", "productunitprice">>,
      <<"OrderID", "orderid">>, <<"OrderDate", "orderdate">>,
      <<"QuantityOrdered", "quantityordered">> }

StripLower(c) == (CHOOSE p \in LowerPairs : p[1] = c)[2]


(***************************************************************************)
(* The destination engine.  A database is a record                         *)
(*   tables : for each of the six names, whether a table of that name      *)
(*            exists, its rows (sequences of cells in column order) and    *)
(*            the tables its foreign-key constraints reference;            *)
(*   views  : the names, among the six, held by a relation that is not a   *)
(*            table;                                                       *)
(*   other  : a table outside the six: whether it exists, how many rows it *)
(*            holds and the table, if any, it has a foreign key to.        *)
(***************************************************************************)
NoTable == [exists |-> FALSE, rows |-> {}, fks |-> {}]

Ok(db) == [ok |-> TRUE, db |-> db]
Failed(db) == [ok |-> FALSE, db |-> db]

\* DROP TABLE IF EXISTS t CASCADE: an error when t names a relation that is
\* not a table; otherwise the table goes, and with it every foreign-key
\* constraint that references it (the referencing tables stay, rows and all).
DropTable(db, t) ==
    IF t \in db.views THEN Failed(db)
    ELSE IF ~db.tables[t].exists THEN Ok(db)
    ELSE Ok([db EXCEPT
               !.tables = [u \in PgNames |->
                             IF u = t THEN NoTable
                             ELSE [db.tables[u] EXCEPT !.fks = @ \ {t}]],
               !.other.fk = IF @ = t THEN "none" ELSE @])

\* CREATE TABLE t(...): an error when the name is taken or a referenced table
\* does not exist; otherwise an empty table with the declared constraints.
CreateTable(db, t) ==
    IF t \in db.views \/ db.tables[t].exists THEN Failed(db)
    ELSE IF \E p \in References(t) : ~db.tables[p].exists THEN Failed(db)
    ELSE Ok([db EXCEPT !.tables[t] =
               [exists |-> TRUE, rows |-> {}, fks |-> References(t)]])

\* The statements of SCHEMA_SQL in order.
SchemaStatements ==
    [j \in 1..(Len(DropOrder) + Len(CreateOrder)) |->
        IF j <= Len(DropOrder)
        THEN [op |-> "DROP", table |-> DropOrder[j]]
        ELSE [op |-> "CREATE", table |-> CreateOrder[j - Len(DropOrder)]]]

\* A variant of the schema text: no DROP, every CREATE with IF NOT EXISTS.
CreateOnlyStatements ==
    [j \in 1..Len(CreateOrder) |-> [op |-> "CREATE IF NOT EXISTS", table |-> CreateOrder[j]]]

RECURSIVE RunStatements(_, _, _)
RunStatements(db, stmts, j) ==
    IF j > Len(stmts) THEN Ok(db)
    ELSE LET st == stmts[j]
             r == IF st.op = "DROP" THEN DropTable(db, st.table)
                  ELSE IF st.op = "CREATE" THEN CreateTable(db, st.table)
                  ELSE IF db.tables[st.table].exists THEN Ok(db)
                  ELSE CreateTable(db, st.table)
         IN IF r.ok THEN RunStatements(r.db, stmts, j + 1) ELSE r

\* Variant: the schema text that keeps the tables it finds.
ExecuteSchemaKeepTables(db) == RunStatements(db, CreateOnlyStatements, 1)

\* cur.execute(SCHEMA_SQL) on the session's view of the database.

ExecuteSchema(db) == RunStatements(db, SchemaStatements, 1)

\* SELECT tablename FROM pg_tables WHERE schemaname = 'public'.
ExistingTables(db) ==
    {t \in PgNames : db.tables[t].exists} \cup
        (IF db.other.exists THEN {"other"} ELSE {})

\* [t for t in tables if t in existing]
ToTruncate(db, tables) ==
    SelectSeq(tables, LAMBDA t : t \in ExistingTables(db))

\* The tables TRUNCATE names CASCADE reaches: the named ones and, again and
\* again, every table with a foreign key to one already reached.
RECURSIVE CascadeClosure(_, _)
CascadeClosure(db, S) ==
    LET more == {u \in PgNames : db.tables[u].exists /\ db.tables[u].fks \cap S # {}}
    IN IF more \subseteq S THEN S ELSE CascadeClosure(db, S \cup more)

\* TRUNCATE <names> CASCADE.
TruncateCascade(db, names) ==
    LET reached == CascadeClosure(db, names)
    IN [db EXCEPT
          !.tables = [u \in PgNames |->
                        IF u \in reached THEN [db.tables[u] EXCEPT !.rows = {}]
                        ELSE db.tables[u]],
          !.other.count = IF db.other.exists /\ db.other.fk \in reached
                          THEN 0 ELSE @]

\* What a REAL (4-byte float, 24-bit significand) column keeps of a whole
\* number below 2^25: itself up to 2^24, above that the nearest even number,
\* a tie going to the one whose significand is even.
Float4(n) ==
    IF n <= 16777216 \/ n % 2 = 0 THEN n
    ELSE IF ((n - 1) \div 2) % 2 = 0 THEN n - 1 ELSE n + 1

\* Whether a value can be stored in a column of the type, and what is stored.
Storable(v, type) ==
    \/ v.k = "null"
    \/ type = "TEXT" /\ v.k = "str"
    \/ type = "INTEGER" /\ v.k = "num"
    \/ type = "REAL" /\ v.k \in {"num", "nan"}

Stored(v, type) ==
    IF type = "REAL" /\ v.k = "num" THEN Num(Float4(v.n)) ELSE v

\* One row put into table t, cells given in the table's column order:
\* the type of every cell, NOT NULL, PRIMARY KEY and REFERENCES are checked.
PutRow(db, t, cells) ==
    LET cols == SchemaColumns[t]
        row == [j \in DOMAIN cols |-> Stored(cells[j], cols[j].type)]
    IN IF ~db.tables[t].exists \/ Len(cells) # Len(cols) THEN Failed(db)
       ELSE IF \E j \in DOMAIN cols : ~Storable(cells[j], cols[j].type)
            THEN Failed(db)
       ELSE IF \E j \in DOMAIN cols : row[j].k = "null" THEN Failed(db)
       ELSE IF \E r \in db.tables[t].rows : r[1] = row[1] THEN Failed(db)
       ELSE IF \E j \in DOMAIN cols :
                 /\ cols[j].ref \in db.tables[t].fks
                 /\ ~\E p \in db.tables[cols[j].ref].rows : p[1] = row[j]
            THEN Failed(db)
       ELSE Ok([db EXCEPT !.tables[t].rows = @ \cup {row}])

\* INSERT INTO t (names) VALUES (params): every name must be a column of t;
\* a column that is not named gets NULL.
InsertInto(db, t, names, params) ==
    LET cols == SchemaColumns[t]
        known == {cols[j].name : j \in DOMAIN cols}
        at(c) == CHOOSE x \in DOMAIN names : names[x] = c
        cells == [j \in DOMAIN cols |->
                    IF cols[j].name \in Range(names)
                    THEN params[at(cols[j].name)] ELSE Null]
    IN IF ~(Range(names) \subseteq known) \/ Len(names) # Len(params)
       THEN Failed(db)
       ELSE PutRow(db, t, cells)


(***************************************************************************)
(* pandas and the CSV file.  A DataFrame is a record of its column names   *)
(* and its rows; a CSV file is a sequence of lines, a line a sequence of   *)
(* fields, a field its text and whether it is written in quotes.           *)
(***************************************************************************)
\* pd.read_sql(SELECT * FROM t): the rows in order under the source's column
\* names; a missing cell of a column that holds numbers is read as NaN.
ReadSql(names, rows) ==
    [columns |-> names,
     values |-> [r \in DOMAIN rows |->
                   [j \in DOMAIN rows[r] |->
                      IF /\ rows[r][j].k = "null"
                         /\ \E q \in DOMAIN rows : rows[q][j].k = "num"
                      THEN NaN ELSE rows[r][j]]]]

\* df.columns = [c.strip().lower() for c in df.columns]
LowerColumns(df) ==
    [df EXCEPT !.columns = [j \in DOMAIN df.columns |-> StripLower(df.columns[j])]]

\* df.where(pd.notnull(df), None): every missing cell becomes None, as the
\* comment on the line says ("NaN -> None for psycopg2").
WhereNotNull(df) ==
    [df EXCEPT !.values = [r \in DOMAIN df.values |->
        [j \in DOMAIN df.values[r] |->
            IF df.values[r][j].k \in {"null", "nan"} THEN Null
            ELSE df.values[r][j]]]]

\* The decimal text of the numbers 0..9, the only ones written to the file.
DecimalText == [n \in 0..9 |-> <<"0", "1", "2", "3", "4", "5", "6", "7", "8", "9">>[n + 1]]

Field(text, quoted) == [t |-> text, q |-> quoted]

\* One cell as to_csv writes it (minimal quoting, missing as nothing): a
\* string is quoted only when it is empty and alone on its line.
CsvField(v, width) ==
    IF v.k \in {"null", "nan"} THEN Field("", FALSE)
    ELSE IF v.k = "str" THEN Field(v.s, v.s = "" /\ width = 1)
    ELSE Field(DecimalText[v.n], FALSE)

CsvLines(df) ==
    << [j \in DOMAIN df.columns |-> Field(df.columns[j], FALSE)] >> \o
    [r \in DOMAIN df.values |->
        [j \in DOMAIN df.values[r] |-> CsvField(df.values[r][j], Len(df.values[r]))]]

\* Variant: df.to_csv(csv_path, index=False, mode="a"), the lines are added
\* to what the file holds.
ToCsvAppend(old, df) == old \o CsvLines(df)

\* df.to_csv(csv_path, index=False): the file is replaced by a header line
\* and one line per row.

ToCsv(old, df) == CsvLines(df)

\* A field of the file as COPY ... WITH CSV reads it for a column of the
\* type: an unquoted empty field is NULL; "bad" stands for input the type
\* does not accept.
CopyValue(f, type) ==
    IF f.t = "" /\ ~f.q THEN Null
    ELSE IF type = "TEXT" THEN Str(f.t)
    ELSE IF \E n \in DOMAIN DecimalText : DecimalText[n] = f.t
         THEN Num(CHOOSE n \in DOMAIN DecimalText : DecimalText[n] = f.t)
         ELSE [k |-> "bad", s |-> f.t, n |-> 0]

\* COPY t FROM STDIN WITH CSV HEADER: the first line is skipped, every other
\* line is one row whose fields go to the table's columns by position.
RECURSIVE CopyFrom(_, _, _, _)
CopyFrom(db, t, file, line) ==
    IF line > Len(file) THEN Ok(db)
    ELSE LET cols == SchemaColumns[t]
             f == file[line]
             r == IF Len(f) # Len(cols) THEN Failed(db)
                  ELSE PutRow(db, t, [j \in DOMAIN cols |-> CopyValue(f[j], cols[j].type)])
         IN IF r.ok THEN CopyFrom(r.db, t, file, line + 1) ELSE r

\* The rows COPY reads from the file, before any of them is stored.
CopyRows(t, file) ==
    [r \in 1..(Len(file) - 1) |->
        [j \in DOMAIN file[r + 1] |->
            IF j \in DOMAIN SchemaColumns[t]
            THEN CopyValue(file[r + 1][j], SchemaColumns[t][j].type)
            ELSE Str(file[r + 1][j].t)]]


(***************************************************************************)
(* The script.                                                             *)
(***************************************************************************)
VARIABLES
    srcFile,      \* whether the SQLite file exists
    srcTables,    \* the tables the SQLite file holds
    src,          \* the rows of each source table, in SELECT order
    pgUp,         \* whether psycopg2.connect reaches the server
    pg,           \* the destination database as committed
    tx,           \* the destination database as the script's session sees it
    csv,          \* the content of the file CSV_DIR/orderdetail.csv
    sqlite_conn,  \* "none", "open" or "closed"
    pg_conn,      \* "none", "open" or "closed"
    pc,           \* the statement of the script to be executed next
    k,            \* which call of the migration sequence is running
    i,            \* the row executemany is at
    df,           \* the DataFrame of the running migrate_* call
    error,        \* the step that raised, "none" while nothing has
    outcome,      \* "running", "ok" (exit status 0) or "error"
    notices,      \* what the run has printed, as tags
    steps,        \* the steps the run has begun, in order
    loaded,       \* the destination tables whose migrate_* call has returned
    sent,         \* per destination table, the rows handed to the engine
    run,          \* which run of the script this is
    prev,         \* the six tables as the previous run left them
    pgAtStart     \* the destination database when this run started

vars == <<srcFile, srcTables, src, pgUp, pg, tx, csv, sqlite_conn, pg_conn, pc,
          k, i, df, error, outcome, notices, steps, loaded, sent, run, prev,
          pgAtStart>>

Call(fn, sqlite_table, pg_table) ==
    [fn |-> fn, sqlite_table |-> sqlite_table, pg_table |-> pg_table]

\* Variant: the first two calls exchanged.
MigrationPlanCountryFirst ==
    << Call("small", "Country", "country"),
       Call("small", "Region", "region"),
       Call("small", "ProductCategory", "productcategory"),
       Call("small", "Product", "product"),
       Call("small", "Customer", "customer"),
       Call("large", "OrderDetail", "orderdetail") >>

\* The migrate_* calls of the main block, in the order they are written.
MigrationPlan ==
    << Call("small", "Region", "region"),
       Call("small", "Country", "country"),
       Call("small", "ProductCategory", "productcategory"),
       Call("small", "Product", "product"),
       Call("small", "Customer", "customer"),
       Call("large", "OrderDetail", "orderdetail") >>

SqliteNames == Range(SQLITE_TABLES)

PgOf(s) == (CHOOSE c \in Range(MigrationPlan) : c.sqlite_table = s).pg_table

NoFrame == [columns |-> <<>>, values |-> <<>>]

(***************************************************************************)
(* The inputs: the source file and the destination before the first run.   *)
(***************************************************************************)
\* A well-formed row of table t with the given key; every reference is to
\* key 1.  The values are those of the specification's end-to-end scenario,
\* the unit price a whole number.
CanonRow(t, id) ==
    CASE t = "region" -> <<Num(id), Str("Europe")>>
      [] t = "country" -> <<Num(id), Str("France"), Num(1)>>
      [] t = "customer" -> <<Num(id), Str("Jane"), Str("Doe"), Str("1 Rue"),
                             Str("Paris"), Num(1)>>
      [] t = "productcategory" -> <<Num(id), Str("Tools"), Str("desc")>>
      [] t = "product" -> <<Num(id), Str("Hammer"), Num(10), Num(1)>>
      [] t = "orderdetail" -> <<Num(id), Num(1), Num(1), Str("2024-01-01"), Num(3)>>

CanonRows(t, n) == [r \in 1..n |-> CanonRow(t, r)]

\* The other values tried for the cell of row r in column j: a missing
\* value always; another key (a duplicate when that row exists); a reference
\* to a key no parent has; the empty string; zero; and for the REAL column a
\* whole number that needs 25 bits.
Alternatives(t, j, r) ==
    LET c == SchemaColumns[t][j]
    IN {Null} \cup
       (IF j = 1 THEN {Num(x) : x \in (1..MaxRows) \ {r}}
        ELSE IF c.ref # "none" THEN {Num(2)}
        ELSE IF c.type = "TEXT" THEN {Str("")}
        ELSE IF c.type = "REAL" THEN {Num(0), Num(16777217)}
        ELSE {Num(0)})

\* The contents tried for the one source table that is varied: up to MaxRows
\* well-formed rows, with at most one cell replaced.
Perturbed(t, n) ==
    UNION {UNION {{[CanonRows(t, n) EXCEPT ![r][j] = v] : v \in Alternatives(t, j, r)} :
                    j \in DOMAIN SchemaColumns[t]} :
             r \in 1..n}

TableVariants(t) ==
    UNION {{CanonRows(t, n)} \cup Perturbed(t, n) : n \in 0..MaxRows}

\* Source files: every table holds one well-formed row, or every table is
\* empty, except one table, which holds any of its variants or is absent.
Sources ==
    UNION {{[tables |-> SqliteNames,
             rows |-> [s \in SqliteNames |->
                         IF PgOf(s) = t THEN v ELSE CanonRows(PgOf(s), 1)]] :
               v \in TableVariants(t)} : t \in PgNames} \cup
    {[tables |-> SqliteNames,
      rows |-> [s \in SqliteNames |->
                  IF PgOf(s) = t THEN CanonRows(t, n) ELSE <<>>]] :
        t \in PgNames, n \in 0..MaxRows} \cup
    {[tables |-> SqliteNames \ {a},
      rows |-> [s \in SqliteNames |->
                  IF s = a THEN <<>> ELSE CanonRows(PgOf(s), 1)]] :
        a \in SqliteNames}

PlainSources ==
    {[tables |-> SqliteNames,
      rows |-> [s \in SqliteNames |-> CanonRows(PgOf(s), n)]] : n \in 0..1}

\* Destinations before the first run.
NoOther == [exists |-> FALSE, count |-> 0, fk |-> "none"]

Others ==
    {NoOther} \cup
    {[exists |-> TRUE, count |-> c, fk |-> f] :
        c \in 0..MaxOther, f \in PgNames \cup {"none"}}

TextColumn(t) ==
    CHOOSE j \in DOMAIN SchemaColumns[t] :
        /\ SchemaColumns[t][j].type = "TEXT"
        /\ \A q \in 1..(j - 1) : SchemaColumns[t][q].type # "TEXT"

\* A row an earlier load left behind: key 1, one text different.
StaleRow(t) == [CanonRow(t, 1) EXCEPT ![TextColumn(t)] = Str("stale")]

SixTables(stale) ==
    [t \in PgNames |->
        [exists |-> TRUE,
         rows |-> IF stale THEN {StaleRow(t)} ELSE {},
         fks |-> References(t)]]

Destinations ==
    \* none of the six names is taken
    {[tables |-> [t \in PgNames |-> NoTable], views |-> {}, other |-> o] :
        o \in {x \in Others : x.fk = "none"}} \cup
    \* the name region is held by a view
    {[tables |-> [t \in PgNames |-> NoTable], views |-> {"region"}, other |-> o] :
        o \in {x \in Others : x.fk = "none"}} \cup
    \* the six tables exist and are empty
    {[tables |-> SixTables(FALSE), views |-> {}, other |-> o] :
        o \in {x \in Others : x.fk = "none" \/ x.count = 0}} \cup
    \* the six tables exist and hold rows of an earlier load
    {[tables |-> SixTables(TRUE), views |-> {}, other |-> o] : o \in Others}

FewDestinations ==
    {d \in Destinations :
        \/ d.other = NoOther /\ d.views = {} /\ ~d.tables["region"].exists
        \/ /\ d.other = [exists |-> TRUE, count |-> MaxOther, fk |-> "region"]
           /\ d.tables["region"].rows # {}}

Inputs ==
    {[file |-> TRUE, up |-> TRUE, source |-> s, dest |-> d] :
        s \in Sources, d \in FewDestinations} \cup
    {[file |-> TRUE, up |-> TRUE, source |-> s, dest |-> d] :
        s \in PlainSources, d \in Destinations} \cup
    {[file |-> TRUE, up |-> FALSE, source |-> s, dest |-> d] :
        s \in PlainSources, d \in FewDestinations} \cup
    {[file |-> FALSE, up |-> u,
      source |-> [tables |-> {}, rows |-> [s \in SqliteNames |-> <<>>]],
      dest |-> d] :
        u \in BOOLEAN, d \in FewDestinations}

NothingSent == [t \in PgNames |-> <<>>]

Init ==
    \E in \in Inputs :
        /\ srcFile = in.file
        /\ srcTables = in.source.tables
        /\ src = in.source.rows
        /\ pgUp = in.up
        /\ pg = in.dest
        /\ tx = in.dest
        /\ csv = <<>>
        /\ sqlite_conn = "none"
        /\ pg_conn = "none"
        /\ pc = "start"
        /\ k = 1
        /\ i = 1
        /\ df = NoFrame
        /\ error = "none"
        /\ outcome = "running"
        /\ notices = {}
        /\ steps = <<>>
        /\ loaded = {}
        /\ sent = NothingSent
        /\ run = 1
        /\ prev = in.dest.tables
        /\ pgAtStart = in.dest

(***************************************************************************)
(* How a step ends.                                                        *)
(***************************************************************************)
\* Variant: the exception is caught and reported, and the script goes on to
\* its last statements.
RaiseAndCarryOn(step) ==
    /\ error' = step
    /\ outcome' = outcome
    /\ pc' = "close"
    /\ tx' = pg

\* An exception nothing catches (or sys.exit with a message): the process
\* prints the diagnostic and dies with a non-zero status.  Nothing after the
\* raising statement runs, so neither connection is closed by the script;
\* the server rolls back what the session had not committed.
Raise(step) ==
    /\ error' = step
    /\ outcome' = "error"
    /\ pc' = "done"
    /\ tx' = pg

\* Variant: pg_conn.autocommit = True, every statement commits at once.
Autocommit(committed, session) == session

\* pg_conn.autocommit = False: a statement's effect stays in the session's
\* transaction; the committed database changes at pg_conn.commit() only.

InTransaction(committed, session) == committed

\* A migrate_* call returns: the next call of the sequence, or the closes.
Return ==
    /\ loaded' = loaded \cup {MigrationPlan[k].pg_table}
    /\ df' = NoFrame
    /\ i' = 1
    /\ IF k < Len(MigrationPlan)
       THEN pc' = "read" /\ k' = k + 1
       ELSE pc' = "close" /\ k' = k

(***************************************************************************)
(* The steps of the main block.                                            *)
(***************************************************************************)
\* Variant: sqlite3.connect(SQLITE_DB_FILE) before the check.
CheckSourceFileLate ==
    /\ pc = "start"
    /\ steps' = Append(steps, "check")
    /\ sqlite_conn' = "open"
    /\ IF srcFile
       THEN pc' = "connect_sqlite" /\ UNCHANGED <<error, outcome, tx>>
       ELSE Raise("check")
    /\ UNCHANGED <<srcFile, srcTables, src, pgUp, pg, csv, pg_conn, k, i,
                   df, notices, loaded, sent, run, prev, pgAtStart>>

\* if not os.path.exists(SQLITE_DB_FILE): sys.exit(...)
CheckSourceFile ==
    /\ pc = "start"
    /\ steps' = Append(steps, "check")
    /\ IF srcFile
       THEN pc' = "connect_sqlite" /\ UNCHANGED <<error, outcome, tx>>
       ELSE Raise("check")
    /\ UNCHANGED <<srcFile, srcTables, src, pgUp, pg, csv, sqlite_conn, pg_conn, k, i,
                   df, notices, loaded, sent, run, prev, pgAtStart>>

\* sqlite3.connect, list_sqlite_tables and the warning about missing tables.
ConnectSqlite ==
    /\ pc = "connect_sqlite"
    /\ steps' = Append(steps, "connect_sqlite")
    /\ sqlite_conn' = "open"
    /\ notices' = IF \E t \in SqliteNames : t \notin srcTables
                  THEN notices \cup {<<"warning", "missing tables">>}
                  ELSE notices
    /\ pc' = "connect_pg"
    /\ UNCHANGED <<srcFile, srcTables, src, pgUp, pg, tx, csv, pg_conn, k, i, df,
                   error, outcome, loaded, sent, run, prev, pgAtStart>>

\* psycopg2.connect, autocommit off, SET synchronous_commit = OFF.
ConnectPostgres ==
    /\ pc = "connect_pg"
    /\ steps' = Append(steps, "connect_pg")
    /\ IF pgUp
       THEN /\ pg_conn' = "open"
            /\ tx' = pg
            /\ pc' = "schema"
            /\ UNCHANGED <<error, outcome>>
       ELSE /\ Raise("connect_pg")
            /\ pg_conn' = pg_conn
    /\ UNCHANGED <<srcFile, srcTables, src, pgUp, pg, csv, sqlite_conn, k, i, df,
                   notices, loaded, sent, run, prev, pgAtStart>>

\* cur.execute(SCHEMA_SQL); pg_conn.commit()
CreateSchema ==
    /\ pc = "schema"
    /\ steps' = Append(steps, "schema")
    /\ LET r == ExecuteSchema(tx)
       IN IF r.ok
          THEN /\ tx' = r.db
               /\ pg' = r.db
               /\ pc' = "truncate"
               /\ UNCHANGED <<error, outcome>>
          ELSE /\ Raise("schema")
               /\ pg' = pg
    /\ UNCHANGED <<srcFile, srcTables, src, pgUp, csv, sqlite_conn, pg_conn, k, i,
                   df, notices, loaded, sent, run, prev, pgAtStart>>

\* truncate_pg_tables(pg_conn, PG_TABLES)
TruncatePgTables ==
    /\ pc = "truncate"
    /\ steps' = Append(steps, "truncate")
    /\ LET to_truncate == ToTruncate(tx, PG_TABLES)
       IN IF to_truncate = <<>>
          THEN /\ notices' = notices \cup {<<"notice", "nothing to truncate">>}
               /\ UNCHANGED <<tx, pg>>
          ELSE /\ tx' = TruncateCascade(tx, Range(to_truncate))
               /\ pg' = tx'
               /\ notices' = notices
    /\ pc' = "read"
    /\ k' = 1
    /\ UNCHANGED <<srcFile, srcTables, src, pgUp, csv, sqlite_conn, pg_conn, i, df,
                   error, outcome, loaded, sent, run, prev, pgAtStart>>

(***************************************************************************)
(* migrate_small_table and migrate_large_table.                            *)
(***************************************************************************)
\* Variant: the test for an empty frame left out.
NeverEmpty(d) == FALSE

\* df.empty

Empty(d) == d.values = <<>>

\* The head both functions share: read the table (an exception when the
\* file has no such table), return with a notice when there is no row,
\* otherwise lower the column names and turn missing cells into None.
ReadTable(fn, next) ==
    /\ pc = "read"
    /\ MigrationPlan[k].fn = fn
    /\ LET call == MigrationPlan[k]
           read == ReadSql(SourceColumns[call.sqlite_table], src[call.sqlite_table])
       IN /\ steps' = Append(steps, call.sqlite_table)
          /\ IF call.sqlite_table \notin srcTables
             THEN /\ Raise(call.sqlite_table)
                  /\ UNCHANGED <<k, i, df, notices, loaded>>
             ELSE IF Empty(read)
             THEN /\ notices' = notices \cup {<<"skipping", call.sqlite_table>>}
                  /\ Return
                  /\ UNCHANGED <<error, outcome, tx>>
             ELSE /\ df' = WhereNotNull(LowerColumns(read))
                  /\ i' = 1
                  /\ pc' = next
                  /\ UNCHANGED <<k, notices, loaded, error, outcome, tx>>
    /\ UNCHANGED <<srcFile, srcTables, src, pgUp, pg, csv, sqlite_conn, pg_conn,
                   sent, run, prev, pgAtStart>>

MigrateSmallRead == ReadTable("small", "executemany")

MigrateLargeRead == ReadTable("large", "to_csv")

\* cur.executemany(insert_sql, df.values.tolist()), one row of it.
ExecuteManyRow ==
    /\ pc = "executemany"
    /\ i <= Len(df.values)
    /\ LET t == MigrationPlan[k].pg_table
           r == InsertInto(tx, t, df.columns, df.values[i])
       IN /\ sent' = [sent EXCEPT ![t] = Append(@, df.values[i])]
          /\ IF r.ok
             THEN /\ tx' = r.db
                  /\ pg' = InTransaction(pg, r.db)
                  /\ i' = i + 1
                  /\ UNCHANGED <<pc, error, outcome>>
             ELSE /\ Raise(MigrationPlan[k].sqlite_table)
                  /\ UNCHANGED <<pg, i>>
    /\ UNCHANGED <<srcFile, srcTables, src, pgUp, csv, sqlite_conn, pg_conn, k, df,
                   notices, steps, loaded, run, prev, pgAtStart>>

\* pg_conn.commit() after executemany, and the return.
CommitSmall ==
    /\ pc = "executemany"
    /\ i > Len(df.values)
    /\ pg' = tx
    /\ Return
    /\ UNCHANGED <<srcFile, srcTables, src, pgUp, tx, csv, sqlite_conn, pg_conn,
                   error, outcome, notices, steps, sent, run, prev, pgAtStart>>

\* df.to_csv(csv_path, index=False)
ExportCsv ==
    /\ pc = "to_csv"
    /\ csv' = ToCsv(csv, df)
    /\ pc' = "copy"
    /\ UNCHANGED <<srcFile, srcTables, src, pgUp, pg, tx, sqlite_conn, pg_conn, k, i,
                   df, error, outcome, notices, steps, loaded, sent, run, prev,
                   pgAtStart>>

\* cur.copy_expert('COPY t FROM STDIN WITH CSV HEADER', f): all the rows of
\* the file or, when one is refused, an exception and none.
CopyExpert ==
    /\ pc = "copy"
    /\ LET t == MigrationPlan[k].pg_table
           r == CopyFrom(tx, t, csv, 2)
       IN /\ sent' = [sent EXCEPT ![t] = CopyRows(t, csv)]
          /\ IF r.ok
             THEN /\ tx' = r.db
                  /\ pg' = InTransaction(pg, r.db)
                  /\ pc' = "commit"
                  /\ UNCHANGED <<error, outcome>>
             ELSE /\ Raise(MigrationPlan[k].sqlite_table)
                  /\ pg' = pg
    /\ UNCHANGED <<srcFile, srcTables, src, pgUp, csv, sqlite_conn, pg_conn, k, i,
                   df, notices, steps, loaded, run, prev, pgAtStart>>

\* pg_conn.commit() after COPY, and the return.
CommitLarge ==
    /\ pc = "commit"
    /\ pg' = tx
    /\ Return
    /\ UNCHANGED <<srcFile, srcTables, src, pgUp, tx, csv, sqlite_conn, pg_conn,
                   error, outcome, notices, steps, sent, run, prev, pgAtStart>>

(***************************************************************************)
(* The end of the main block.                                              *)
(***************************************************************************)
\* sqlite_conn.close(); pg_conn.close()
CloseConnections ==
    /\ pc = "close"
    /\ steps' = Append(steps, "close")
    /\ sqlite_conn' = "closed"
    /\ pg_conn' = "closed"
    /\ tx' = pg
    /\ pc' = "report"
    /\ UNCHANGED <<srcFile, srcTables, src, pgUp, pg, csv, k, i, df, error, outcome,
                   notices, loaded, sent, run, prev, pgAtStart>>

\* print("Migration complete! Total time: ..."), and the normal exit.
ReportElapsed ==
    /\ pc = "report"
    /\ notices' = notices \cup {<<"complete", "total time">>}
    /\ outcome' = "ok"
    /\ pc' = "done"
    /\ UNCHANGED <<srcFile, srcTables, src, pgUp, pg, tx, csv, sqlite_conn, pg_conn,
                   k, i, df, error, steps, loaded, sent, run, prev, pgAtStart>>

\* The operator runs the script again: a new process, the same source file,
\* the destination and the CSV file as the run before left them.
RunAgain ==
    /\ pc = "done"
    /\ run < MaxRuns
    /\ run' = run + 1
    /\ prev' = pg.tables
    /\ pgAtStart' = pg
    /\ tx' = pg
    /\ sqlite_conn' = "none"
    /\ pg_conn' = "none"
    /\ pc' = "start"
    /\ k' = 1
    /\ i' = 1
    /\ df' = NoFrame
    /\ error' = "none"
    /\ outcome' = "running"
    /\ notices' = {}
    /\ steps' = <<>>
    /\ loaded' = {}
    /\ sent' = NothingSent
    /\ UNCHANGED <<srcFile, srcTables, src, pgUp, pg, csv>>

Next ==
    \/ CheckSourceFile
    \/ ConnectSqlite
    \/ ConnectPostgres
    \/ CreateSchema
    \/ TruncatePgTables
    \/ MigrateSmallRead
    \/ MigrateLargeRead
    \/ ExecuteManyRow
    \/ CommitSmall
    \/ ExportCsv
    \/ CopyExpert
    \/ CommitLarge
    \/ CloseConnections
    \/ ReportElapsed
    \/ RunAgain

Spec == Init /\ [][Next]_vars

(***************************************************************************)
(* Properties.                                                             *)
(***************************************************************************)
Terminated == pc = "done"

Succeeded == pc = "done" /\ outcome = "ok"

PlanIndex(s) == CHOOSE x \in DOMAIN MigrationPlan : MigrationPlan[x].sqlite_table = s

\* The rows a destination table holds once the rows of source table s are
\* stored in it.
AsStored(s) ==
    LET cols == SchemaColumns[PgOf(s)]
    IN {[j \in DOMAIN cols |-> Stored(src[s][r][j], cols[j].type)] : r \in DOMAIN src[s]}

\* C1: no row is handed to the destination for a table before every table
\* it references has had its migrate call return, with that load committed
\* (the session holds nothing uncommitted for the parent); and in the
\* written order of the calls every table comes after the tables it
\* references.
C1_ParentsLoadedFirst ==
    /\ \A t \in PgNames : sent[t] # <<>> =>
          \A p \in References(t) :
              /\ p \in loaded
              /\ pg.tables[p].exists
              /\ pg.tables[p] = tx.tables[p]
    /\ \A x \in DOMAIN MigrationPlan :
          References(MigrationPlan[x].pg_table) \subseteq
              {MigrationPlan[y].pg_table : y \in 1..(x - 1)}

C1_Witness ==
    /\ Succeeded
    /\ \A t \in PgNames : sent[t] # <<>> /\ pg.tables[t].rows # {}

\* C2: when a run that follows another run over the same source has
\* terminated, the six destination tables are exactly as the run before
\* left them.
C2_SecondRunSame == (run > 1 /\ Terminated) => pg.tables = prev

C2_Witness ==
    /\ run = 2
    /\ Succeeded
    /\ \A t \in PgNames : pg.tables[t].rows # {}
    /\ pg.tables = prev

\* C3: the table outside the six exists exactly when it did at the start of
\* the run and holds as many rows, whatever the run has done so far, also
\* when it started with a foreign key to one of the six.
C3_OtherTableUntouched ==
    /\ pg.other.exists = pgAtStart.other.exists
    /\ pg.other.count = pgAtStart.other.count

C3_Witness ==
    /\ Succeeded
    /\ pgAtStart.other.exists
    /\ pgAtStart.other.fk = "region"
    /\ pgAtStart.other.count > 0
    /\ pgAtStart.tables["region"].rows # {}
    /\ pg.other.count = pgAtStart.other.count

\* C4: after a run that ends without error every destination table holds
\* exactly the rows of its source table: as many, with the same values.
C4_ExactCopy ==
    Succeeded =>
        \A s \in SqliteNames :
            /\ pg.tables[PgOf(s)].rows = Range(src[s])
            /\ Cardinality(pg.tables[PgOf(s)].rows) = Len(src[s])

\* What does hold of the values: after a run that ends without error every
\* destination table holds one row per source row, each as its column types
\* store it (a REAL column keeps 24 significant bits).
ExactCopyAsStored ==
    Succeeded =>
        \A s \in SqliteNames :
            /\ pg.tables[PgOf(s)].rows = AsStored(s)
            /\ Cardinality(pg.tables[PgOf(s)].rows) = Len(src[s])

\* C5: a cell handed to the destination is NULL exactly when the source
\* cell it comes from is missing.
C5_NullIffMissing ==
    \A s \in SqliteNames :
        \A r \in DOMAIN sent[PgOf(s)] : \A j \in DOMAIN sent[PgOf(s)][r] :
            (sent[PgOf(s)][r][j] = Null) <=> (src[s][r][j] = Null)

\* What does hold in both strategies: a missing source cell is handed over
\* as NULL; and in the batched insert nothing else is.
MissingBecomesNull ==
    \A s \in SqliteNames :
        \A r \in DOMAIN sent[PgOf(s)] : \A j \in DOMAIN sent[PgOf(s)][r] :
            /\ src[s][r][j] = Null => sent[PgOf(s)][r][j] = Null
            /\ (MigrationPlan[PlanIndex(s)].fn = "small" /\ sent[PgOf(s)][r][j] = Null)
                  => src[s][r][j] = Null

\* C6: once the migrate call of a source table without rows has begun, the
\* notice has been printed, nothing has been handed to the destination for
\* the table, the call has returned without an error and the destination
\* table is empty.
C6_EmptyTableSkipped ==
    \A s \in srcTables :
        (s \in Range(steps) /\ src[s] = <<>>) =>
            /\ <<"skipping", s>> \in notices
            /\ sent[PgOf(s)] = <<>>
            /\ PgOf(s) \in loaded
            /\ error # s
            /\ (PlanIndex(s) < Len(MigrationPlan) => k > PlanIndex(s))
            /\ pg.tables[PgOf(s)].rows = {}
            /\ tx.tables[PgOf(s)].rows = {}

C6_Witness ==
    /\ Succeeded
    /\ srcTables = SqliteNames
    /\ src["Region"] = <<>>
    /\ src["OrderDetail"] = <<>>

\* C7: when the run has terminated, no connection it opened is still open.
C7_ConnectionsClosed ==
    Terminated => (sqlite_conn # "open" /\ pg_conn # "open")

\* C8: when the source file does not exist, no connection is ever opened,
\* the destination stays as it was at the start of the run, and the run
\* ends at the check with an error.
C8_MissingFileAborts ==
    ~srcFile =>
        /\ sqlite_conn = "none"
        /\ pg_conn = "none"
        /\ pg = pgAtStart
        /\ pc \in {"start", "done"}
        /\ (Terminated => outcome = "error" /\ error = "check")

C8_Witness ==
    /\ ~srcFile
    /\ Terminated
    /\ pg.tables["region"].rows # {}

\* C9: no step is begun twice in a run, and once a step has raised the run
\* is over with an error: the raising step is the last one begun and the
\* completion line has not been printed.
C9_FirstErrorEndsRun ==
    /\ \A x, y \in DOMAIN steps : steps[x] = steps[y] => x = y
    /\ error # "none" =>
          /\ Terminated
          /\ outcome = "error"
          /\ steps[Len(steps)] = error
          /\ <<"complete", "total time">> \notin notices

C9_Witness ==
    /\ error = "Product"
    /\ Terminated
    /\ sent["product"] # <<>>

\* C10: a table whose migrate call has returned holds, committed, all the
\* rows of its source table; and when the migration of a table has raised,
\* that table and every table after it in the sequence are empty.
C10_PerTableCommit ==
    /\ \A s \in SqliteNames : PgOf(s) \in loaded => pg.tables[PgOf(s)].rows = AsStored(s)
    /\ (Terminated /\ error \in SqliteNames) =>
          \A x \in DOMAIN MigrationPlan :
              /\ x < PlanIndex(error) => MigrationPlan[x].pg_table \in loaded
              /\ x >= PlanIndex(error) => pg.tables[MigrationPlan[x].pg_table].rows = {}

C10_Witness ==
    /\ Terminated
    /\ error = "Country"
    /\ Len(sent["country"]) = 2
    /\ pg.tables["region"].rows # {}
    /\ pg.tables["country"].rows = {}

=============================================================================
